---------------------------- MODULE Spec2Model ----------------------------
(* A model of rag_application/modules/vector_index_faiss.py (class          *)
(* VectorIndex): the products table, the embedding cache, the FAISS index, *)
(* the operations on one instance and the get_instance singleton access.   *)
EXTENDS Integers, Sequences, FiniteSets, TLC

(***************************************************************************)
(* Bounds of the model.                                                    *)
(***************************************************************************)
\* largest number of rows of the processed-products file
MaxN == 2
\* the instance's batch_size (32 by default, 16 in the tests)
BatchSize == 1
\* largest k passed to search_index
MaxK == 2
\* number of mutating calls (create / update / remove) in one behaviour
MaxMut == 2
\* largest number of entries of one updates mapping
MaxBatch == 2

(***************************************************************************)
(* Texts are sequences of tokens; a token is a string.  Decimal digits are *)
(* the tokens "0".."9", " " is white space, the others are words.          *)
(***************************************************************************)
DigitTok == <<"0", "1", "2", "3", "4", "5", "6", "7", "8", "9">>

IsDigit(c) == \E d \in 1..10 : DigitTok[d] = c

DigitVal(c) == (CHOOSE d \in 1..10 : DigitTok[d] = c) - 1

\* str(n) for a non-negative integer n
RECURSIVE Str(_)
Str(n) == IF n < 10 THEN <<DigitTok[n + 1]>>
          ELSE Str(n \div 10) \o <<DigitTok[(n % 10) + 1]>>

\* query.strip(): leading and trailing white space removed
RECURSIVE LStrip(_)
LStrip(s) == IF s # <<>> /\ Head(s) = " " THEN LStrip(Tail(s)) ELSE s

RECURSIVE RStrip(_)
RStrip(s) == IF s # <<>> /\ s[Len(s)] = " " THEN RStrip(SubSeq(s, 1, Len(s) - 1)) ELSE s

Strip(s) == RStrip(LStrip(s))

\* int(query) raises ValueError unless the stripped query is a digit string
CanParseInt(q) == Strip(q) # <<>> /\ \A i \in 1..Len(Strip(q)) : IsDigit(Strip(q)[i])

RECURSIVE DigitsValue(_)
DigitsValue(s) == IF s = <<>> THEN 0
                  ELSE 10 * DigitsValue(SubSeq(s, 1, Len(s) - 1)) + DigitVal(s[Len(s)])

ParseInt(q) == DigitsValue(Strip(q))

(***************************************************************************)
(* The embedding encoder.  A vector is modelled by one integer coordinate; *)
(* the encoder is a fixed function of the text (a positional code of its   *)
(* tokens), so distinct texts of the model get distinct vectors.           *)
(***************************************************************************)
Code(c) == IF IsDigit(c) THEN DigitVal(c)
           ELSE CASE c = " " -> 10
                  [] c = "t" -> 11
                  [] c = "dA" -> 12
                  [] c = "dB" -> 13
                  [] c = "bp" -> 14
                  [] OTHER -> 15

RECURSIVE Embed(_)
Embed(text) == IF text = <<>> THEN 0 ELSE Code(Head(text)) + 3 * Embed(Tail(text))

\* a cache value: an embedding vector, or the pair (None, None)
Vec(v) == [isvec |-> TRUE, v |-> v]

NoneTuple == [isvec |-> FALSE, v |-> 0]

\* squared Euclidean distance
L2(a, b) == (a - b) * (a - b)

\* the batches range(0, len(texts), batch_size) cuts the texts into
NumBatches(n) == (n + BatchSize - 1) \div BatchSize

BatchOf(i) == (i - 1) \div BatchSize

RECURSIVE EncodeFrom(_, _, _)
EncodeFrom(texts, failed, i) ==
    IF i > Len(texts) THEN <<>>
    ELSE (IF BatchOf(i) \in failed THEN <<>> ELSE <<Embed(texts[i])>>)
         \o EncodeFrom(texts, failed, i + 1)

\* encode_text_to_embedding: the batches in `failed` raise inside the try
\* and are skipped, their vectors are missing from the output
encode_text_to_embedding(texts, failed) == EncodeFrom(texts, failed, 1)


(***************************************************************************)
(* The processed-products table.  A row keeps its DataFrame index label,   *)
(* which read_parquet sets to the position in the file and which a later   *)
(* row filter does not renumber.                                           *)
(***************************************************************************)
TitleOf(i) == <<"t">> \o Str(i)

CombinedOf(title, desc) == title \o <<" ">> \o desc

FileRow(i, base) ==
    [label |-> i, product_id |-> i + base, title |-> TitleOf(i), desc |-> <<"dA">>,
     ctext |-> CombinedOf(TitleOf(i), <<"dA">>) \o <<" ", "bp">>]

FileTable(n, base) == [i \in 1..n |-> FileRow(i - 1, base)]

\* the tables the file may hold: identifiers 0..n-1 or 1..n
FileTables == {FileTable(n, base) : n \in 0..MaxN, base \in {0, 1}}

\* identifiers a caller may name
Ids == 0..MaxN

Descs == {<<"dA">>, <<"dB">>}

ProductIds(rows) == {rows[i].product_id : i \in 1..Len(rows)}

Labels(rows) == {rows[i].label : i \in 1..Len(rows)}

RowOfId(rows, pid) == rows[CHOOSE i \in 1..Len(rows) : rows[i].product_id = pid]

RowOfLabel(rows, lab) == rows[CHOOSE i \in 1..Len(rows) : rows[i].label = lab]

VARIABLES
    file,                \* the processed-products file: [exists, rows]
    products_df,         \* self.products_df: [isNone, rows]
    embeddings_dict,     \* self.embeddings_dict: identifier -> cache value
    _index,              \* self._index: [isNone, trained, items]
    _is_index_created,   \* self._is_index_created
    removed,             \* identifiers removed by remove_product_by_id (history)
    nmut,                \* number of mutating calls made so far
    result,              \* outcome of the last call
    _instance,           \* cls._instance: "None" or "obj" (the instance above)
    pickle_file,         \* the snapshot file: [exists, ok, inst]
    hard_file,           \* whether the path verify_or_wait_for_file_creation checks exists
    same_path,           \* whether products_file is that path
    pc,                  \* where each get_instance caller is
    tries,               \* existence checks made by each caller's wait
    builders,            \* callers that started a build (history)
    returned,            \* what each caller's get_instance returned (history)
    frame,               \* the local variables of each caller's running method
    preprocessor         \* the DataPreprocessor, its running preprocess_data and the output directory

inst == <<products_df, embeddings_dict, _index, _is_index_created>>

api == <<removed, nmut, result>>

life == <<_instance, pickle_file, hard_file, same_path, pc, tries, builders, returned,
         frame, preprocessor>>

vars == <<file, products_df, embeddings_dict, _index, _is_index_created,
          removed, nmut, result,
          _instance, pickle_file, hard_file, same_path, pc, tries, builders, returned,
          frame, preprocessor>>

\* the callers of get_instance
NThreads == 2

Threads == 1..NThreads


NoneDf == [isNone |-> TRUE, rows |-> <<>>]

NoneIndex == [isNone |-> TRUE, trained |-> FALSE, items |-> <<>>]

\* the last call: its name, arguments (q, k), the exception it raised and
\* what it returned; `owners` names, for each returned index, the entry the
\* match stands for and `emb` is what the encoder returned to the call
\* (both history only); `old` and `changed` are the first argument and the
\* return value of find_changed_products, `written` the identifiers of the
\* entries search_and_generate_response put into its string, and `again`
\* says that create_faiss_index follows a create_faiss_index that completed
NoResult == [op |-> "none", err |-> "none", msg |-> "", q |-> <<>>, k |-> 0,
             dists |-> <<>>, idxs |-> <<>>, owners |-> <<>>, emb |-> <<>>,
             old |-> <<>>, changed |-> {}, written |-> <<>>, again |-> FALSE]

Outcome(op, err, msg) == [NoResult EXCEPT !.op = op, !.err = err, !.msg = msg]

\* a caller that runs no method: the method, its arguments (pid, updates),
\* list(changed_products), the loop position, the filtered table that is
\* about to be assigned, the new embedding, and the exception raised
NoFrame == [op |-> "none", pid |-> 0, updates |-> <<>>, order |-> <<>>, i |-> 1,
            tmp |-> <<>>, vec |-> 0, err |-> "none"]

\* the output files of preprocess_data, in the order of output_files
Outputs == <<"examples", "products", "sources">>

\* DataPreprocessor.__init__ (preprocessing_complete = False) with no call
\* running: where the call is, the output it is at, the exception raised,
\* the outputs this call saved, and the output files that exist (disk)
NoPreprocessor == [preprocessing_complete |-> FALSE, pc |-> "idle", i |-> 1,
                   err |-> "none", written |-> {}, disk |-> {}]

NoPickle == [exists |-> FALSE, ok |-> FALSE,
             inst |-> [df |-> NoneDf, cache |-> <<>>, idx |-> NoneIndex, created |-> FALSE]]

\* __init__
InitInstance ==
    /\ products_df = NoneDf
    /\ embeddings_dict = <<>>
    /\ _index = NoneIndex
    /\ _is_index_created = FALSE

(***************************************************************************)
(* load_processed_products                                                 *)
(***************************************************************************)
\* the table after the call: a missing file is logged and the table kept
LoadedDf(f, df) == IF f.exists THEN [isNone |-> FALSE, rows |-> f.rows] ELSE df

load_processed_products ==
    /\ products_df' = LoadedDf(file, products_df)
    /\ removed' = IF file.exists THEN removed \ ProductIds(file.rows) ELSE removed
    /\ result' = Outcome("load", "none", "")
    /\ UNCHANGED <<file, embeddings_dict, _index, _is_index_created, nmut, life>>

(***************************************************************************)
(* create_faiss_index                                                      *)
(***************************************************************************)
Put(cache, key, val) == (key :> val) @@ cache

\* the loop of lines 148-149: embeddings[i] raises IndexError at the first
\* row that has no vector, after the rows before it were stored
RECURSIVE CacheFill(_, _, _, _)
CacheFill(rows, emb, cache, i) ==
    IF i > Len(rows) \/ i > Len(emb) THEN cache
    ELSE CacheFill(rows, emb, Put(cache, rows[i].product_id, Vec(emb[i])), i + 1)

\* (mutant) the vectors are numbered by product identifier
BuildItems_ById(rows, emb) ==
    [i \in 1..Len(rows) |-> [id |-> rows[i].product_id, v |-> emb[i],
                             owner |-> rows[i].product_id]]

\* add_with_ids(embeddings, arange(len(products_df))): numeric id = position.
\* `owner` records the entry the vector was computed for (history only).
BuildItems(rows, emb) ==
    [i \in 1..Len(rows) |-> [id |-> i - 1, v |-> emb[i], owner |-> rows[i].product_id]]

\* line 185: a new, untrained and empty IndexIVFPQ
NewIndex == [isNone |-> FALSE, trained |-> FALSE, items |-> <<>>]

\* lines 185-206 with the vectors added to the index the instance already
\* holds instead of a new one
Rebuilt_Append(idx, rows, emb) ==
    [isNone |-> FALSE, trained |-> TRUE, items |-> idx.items \o BuildItems(rows, emb)]

\* lines 185-206: self._index is replaced by a new index, which is trained
\* and then holds exactly one vector per row of the table
Rebuilt(idx, rows, emb) ==
    [isNone |-> FALSE, trained |-> TRUE, items |-> BuildItems(rows, emb)]

\* the instance after create_faiss_index, and how the call ended; `failed`
\* are the encoder batches that raise, trainOk whether train() succeeds
CreateOutcome(df, cache, idx, created, failed, trainOk) ==
    LET rows  == df.rows
        texts == [i \in 1..Len(rows) |-> rows[i].ctext]
        emb   == encode_text_to_embedding(texts, failed)
        same  == [df |-> df, cache |-> cache, idx |-> idx, created |-> created,
                  emb |-> emb]
    IN  IF df.isNone
        THEN same @@ [err |-> "TypeError"]
        ELSE IF Len(emb) < Len(rows)
        THEN [same EXCEPT !.cache = CacheFill(rows, emb, cache, 1)] @@ [err |-> "IndexError"]
        ELSE IF Len(rows) = 0
        THEN same @@ [err |-> "IndexError"]
        ELSE IF ~trainOk
        THEN [same EXCEPT !.cache = CacheFill(rows, emb, cache, 1), !.idx = NewIndex]
             @@ [err |-> "RuntimeError"]
        ELSE [same EXCEPT !.cache = CacheFill(rows, emb, cache, 1),
                          !.idx = Rebuilt(idx, rows, emb),
                          !.created = TRUE]
             @@ [err |-> "none"]

\* the instance get_instance unpickles: the snapshot of a complete build
\* from the table t
Snapshot(t) ==
    CreateOutcome([isNone |-> FALSE, rows |-> t], <<>>, NoneIndex, FALSE, {}, TRUE)

\* a behaviour starts with a newly constructed instance, or with one
\* restored from the snapshot of an earlier complete build of the file
Init ==
    /\ file \in {[exists |-> FALSE, rows |-> <<>>]}
                  \cup {[exists |-> TRUE, rows |-> t] : t \in FileTables}
    /\ \/ InitInstance
       \/ /\ file.exists /\ Len(file.rows) > 0
          /\ \E o \in {Snapshot(file.rows)} :
               /\ products_df = o.df
               /\ embeddings_dict = o.cache
               /\ _index = o.idx
               /\ _is_index_created = o.created
    /\ removed = {}
    /\ nmut = 0
    /\ result = NoResult
    /\ _instance = "obj"
    /\ pickle_file = NoPickle
    /\ hard_file = FALSE
    /\ same_path = FALSE
    /\ pc = [t \in Threads |-> "idle"]
    /\ tries = [t \in Threads |-> 0]
    /\ builders = {}
    /\ returned = [t \in Threads |-> "nothing"]
    /\ frame = [t \in Threads |-> NoFrame]
    /\ preprocessor = NoPreprocessor

create_faiss_index ==
    /\ nmut < MaxMut
    /\ \E failed \in SUBSET (0..(NumBatches(Len(products_df.rows)) - 1)), trainOk \in BOOLEAN :
         \E o \in {CreateOutcome(products_df, embeddings_dict, _index, _is_index_created,
                                failed, trainOk)} :
             /\ embeddings_dict' = o.cache
             /\ _index' = o.idx
             /\ _is_index_created' = o.created
             /\ result' = [Outcome("create", o.err, "") EXCEPT
                               !.emb = o.emb,
                               !.again = (result.op = "create" /\ result.err = "none")]
    /\ nmut' = nmut + 1
    /\ UNCHANGED <<file, products_df, removed, life>>

(***************************************************************************)
(* search_index and search_by_product_id                                   *)
(***************************************************************************)
\* distance FAISS reports for a missing result (the largest float)
PadDist == 2147483647

\* _index.search(query_vector, k): the k nearest stored vectors by squared
\* distance, earlier insertions first among equals, padded with id -1.  With
\* nlist = floor(sqrt(N)) <= nprobe = 6 every cell is visited, so for the
\* table sizes of the model the search is exhaustive.
RECURSIVE TopK(_, _, _, _)
TopK(items, taken, qv, k) ==
    IF k <= 0 THEN <<>>
    ELSE LET cand == (1..Len(items)) \ taken
         IN  IF cand = {}
             THEN <<[d |-> PadDist, id |-> -1, owner |-> -1]>> \o TopK(items, taken, qv, k - 1)
             ELSE LET best == CHOOSE i \in cand : \A j \in cand :
                                  \/ L2(items[i].v, qv) < L2(items[j].v, qv)
                                  \/ L2(items[i].v, qv) = L2(items[j].v, qv) /\ i <= j
                  IN  <<[d |-> L2(items[best].v, qv), id |-> items[best].id,
                         owner |-> items[best].owner]>>
                      \o TopK(items, taken \cup {best}, qv, k - 1)

\* (mutant) the search returns every stored vector, not the k nearest
faiss_search_All(items, qv, k) == TopK(items, {}, qv, Len(items) + k)

faiss_search(items, qv, k) == TopK(items, {}, qv, k)

\* search_by_product_id: returns the pair (embedding, index) or (None, None),
\* never None; raises when the index cannot be searched with the cached
\* value.  An index whose train() failed either rejects the search
\* (untrainedRaises) or finds nothing.
search_by_product_id(cache, idx, pid, untrainedRaises) ==
    IF pid \notin DOMAIN cache
    THEN [raises |-> "none", isNone |-> FALSE, emb |-> NoneTuple, nn |-> -1]
    ELSE IF idx.isNone
    THEN [raises |-> "AttributeError", isNone |-> TRUE, emb |-> NoneTuple, nn |-> -1]
    ELSE IF ~cache[pid].isvec
    THEN [raises |-> "AssertionError", isNone |-> TRUE, emb |-> NoneTuple, nn |-> -1]
    ELSE IF ~idx.trained /\ untrainedRaises
    THEN [raises |-> "RuntimeError", isNone |-> TRUE, emb |-> NoneTuple, nn |-> -1]
    ELSE [raises |-> "none", isNone |-> FALSE, emb |-> cache[pid],
          nn |-> faiss_search(idx.items, cache[pid].v, 1)[1].id]

\* line 281: `direct_search_embedding is not None`, a test of the pair
DirectSearchFound(ret) == ~ret.isNone

\* (mutant) the query is tested without strip()
IsBlank_NoStrip(q) == q = <<>>

\* not query.strip()
IsBlank(q) == Strip(q) = <<>>

\* the try block of lines 242-268: None when encoding or the search raised
\* (a failed batch leaves an empty query vector, which the index rejects)
AnnPart(idx, q, k, encFail, untrainedRaises) ==
    IF encFail \/ (~idx.trained /\ untrainedRaises) THEN <<>>
    ELSE faiss_search(idx.items, encode_text_to_embedding(<<q>>, {})[1], k)

\* (mutant) the FAISS results are put before the direct match
Combine_AnnFirst(direct, ann) == ann \o direct

\* lines 282-283 and 292-294: the direct match, if any, comes first and
\* the FAISS results follow
Combine(direct, ann) == direct \o ann

\* the outcome of search_index(q, k): the error raised, the returned
\* sequences and the cache after the call
SearchOutcome(cache, idx, q, k, encFail, untrainedRaises) ==
    LET fail(e, m) == [err |-> e, msg |-> m, res |-> <<>>, cache |-> cache]
        ann == AnnPart(idx, q, k, encFail, untrainedRaises)
    IN  IF idx.isNone THEN fail("RuntimeError", "Index is not initialized.")
        ELSE IF IsBlank(q) THEN fail("ValueError", "Query string cannot be empty.")
        ELSE IF k <= 0 THEN fail("TypeError", "Search radius must be an integer greater than 0.")
        ELSE IF ~CanParseInt(q)
        THEN [err |-> "none", msg |-> "", res |-> Combine(<<>>, ann), cache |-> cache]
        ELSE LET pid == ParseInt(q)
                 ret == search_by_product_id(cache, idx, pid, untrainedRaises)
             IN  IF ret.raises # "none" THEN fail(ret.raises, "")
                 ELSE IF DirectSearchFound(ret)
                 THEN [err |-> "none", msg |-> "",
                       res |-> Combine(<<[d |-> 0, id |-> -1, owner |-> pid]>>, ann),
                       cache |-> IF pid \notin DOMAIN cache
                                 THEN Put(cache, pid, NoneTuple) ELSE cache]
                 ELSE [err |-> "none", msg |-> "", res |-> Combine(<<>>, ann),
                       cache |-> cache]

\* queries a caller may pass: empty, blank, a word, identifiers, and an
\* identifier with leading white space
Queries == {<<>>, <<" ">>, <<"apple">>, <<" ", "1">>}
               \cup {Str(x) : x \in Ids}

Ks == 0..MaxK

\* the encoder is reached only by a call that passes the three checks
EncoderReached(idx, q, k) == ~idx.isNone /\ ~IsBlank(q) /\ k > 0

search_index ==
    /\ \E q \in Queries, k \in Ks :
       \E encFail \in IF EncoderReached(_index, q, k) THEN BOOLEAN ELSE {FALSE},
          untrainedRaises \in IF EncoderReached(_index, q, k) /\ ~_index.trained
                              THEN BOOLEAN ELSE {TRUE} :
         \E o \in {SearchOutcome(embeddings_dict, _index, q, k, encFail, untrainedRaises)} :
             /\ embeddings_dict' = o.cache
             /\ result' = [NoResult EXCEPT
                           !.op = "search", !.err = o.err, !.msg = o.msg, !.q = q, !.k = k,
                           !.dists = [i \in 1..Len(o.res) |-> o.res[i].d],
                           !.idxs = [i \in 1..Len(o.res) |-> o.res[i].id],
                           !.owners = [i \in 1..Len(o.res) |-> o.res[i].owner],
                           !.emb = IF encFail \/ ~EncoderReached(_index, q, k) THEN <<>>
                                   ELSE encode_text_to_embedding(<<q>>, {})]
    /\ UNCHANGED <<file, products_df, _index, _is_index_created, removed, nmut, life>>

(***************************************************************************)
(* find_changed_products, update_product_descriptions,                     *)
(* update_embeddings_for_changed_products                                  *)
(***************************************************************************)
\* an updates mapping in iteration order: a sequence of [id, desc] with
\* distinct ids
Keys(updates) == {updates[i].id : i \in 1..Len(updates)}

ValueOf(updates, pid) == updates[CHOOSE i \in 1..Len(updates) : updates[i].id = pid].desc

\* None as a description: what dict.get gives for a missing key
NoneDesc == <<"None">>

\* old_descriptions.get(product_id)
Get(old, p) == IF p \in DOMAIN old THEN old[p] ELSE NoneDesc

\* the loop of lines 316-319 from the i-th item of new on
RECURSIVE FindChangedFrom(_, _, _)
FindChangedFrom(old, new, i) ==
    IF i > Len(new) THEN {}
    ELSE (IF Get(old, new[i].id) # new[i].desc THEN {new[i].id} ELSE {})
             \cup FindChangedFrom(old, new, i + 1)

\* (mutant) only the keys that old holds are compared
find_changed_products_Known(old, new) ==
    FindChangedFrom(old, new, 1) \cap DOMAIN old

\* find_changed_products(old, new)
find_changed_products(old, new) == FindChangedFrom(old, new, 1)

\* the first argument update_product_descriptions passes: iterrows() yields
\* (index label, row), so the old descriptions are keyed by label
ChangedProducts(rows, updates) ==
    find_changed_products([l \in Labels(rows) |-> RowOfLabel(rows, l).desc], updates)

\* (mutant) the row is addressed by its index label
Rewrite_ByLabel(rows, pid, desc) ==
    [i \in 1..Len(rows) |->
        IF rows[i].label = pid
        THEN [rows[i] EXCEPT !.desc = desc,
                             !.ctext = CombinedOf(rows[i].title, desc)]
        ELSE rows[i]]

\* lines 354-356 for one product
Rewrite(rows, pid, desc) ==
    [i \in 1..Len(rows) |->
        IF rows[i].product_id = pid
        THEN [rows[i] EXCEPT !.desc = desc,
                             !.ctext = CombinedOf(RowOfId(rows, pid).title, desc)]
        ELSE rows[i]]

\* the loop of lines 351-356: KeyError at the first unknown identifier,
\* after the entries before it were rewritten
RECURSIVE ApplyUpdates(_, _, _)
ApplyUpdates(rows, updates, i) ==
    IF i > Len(updates) THEN [rows |-> rows, err |-> "none"]
    ELSE IF updates[i].id \notin ProductIds(rows) THEN [rows |-> rows, err |-> "KeyError"]
    ELSE ApplyUpdates(Rewrite(rows, updates[i].id, updates[i].desc), updates, i + 1)

\* line 368: .at[product_id, ...] addresses the row by index label
TextAt(rows, pid) == CombinedOf(RowOfLabel(rows, pid).title, RowOfLabel(rows, pid).desc)

\* update_embeddings_for_changed_products over `order`; the encoder fails
\* for the product at position failAt (0: for none).  Any exception ends
\* the loop with RuntimeError, keeping what the products before it stored.
RECURSIVE Reembed(_, _, _, _, _, _)
Reembed(rows, cache, idx, order, i, failAt) ==
    IF i > Len(order) THEN [cache |-> cache, idx |-> idx, err |-> "none"]
    ELSE LET pid == order[i]
         IN  IF \/ pid \notin Labels(rows)
                \/ i = failAt
                \/ idx.isNone
                \/ ~idx.trained
             THEN [cache |-> cache, idx |-> idx, err |-> "RuntimeError"]
             ELSE LET v == encode_text_to_embedding(<<TextAt(rows, pid)>>, {})[1]
                  IN  Reembed(rows, Put(cache, pid, Vec(v)),
                              [idx EXCEPT !.items = Append(@, [id |-> pid, v |-> v,
                                                                owner |-> pid])],
                              order, i + 1, failAt)

update_embeddings_for_changed_products(rows, cache, idx, order, failAt) ==
    Reembed(rows, cache, idx, order, 1, failAt)

\* the orders list(changed_products) may have
RECURSIVE Orders(_)
Orders(S) == IF S = {} THEN {<<>>}
             ELSE UNION {{<<x>> \o o : o \in Orders(S \ {x})} : x \in S}

UpdateOutcome(df, cache, idx, updates, order, failAt) ==
    LET same == [df |-> df, cache |-> cache, idx |-> idx]
    IN  IF df.isNone THEN same @@ [err |-> "AttributeError"]
        ELSE LET changed == ChangedProducts(df.rows, updates)
                 app == ApplyUpdates(df.rows, updates, 1)
                 df2 == [df EXCEPT !.rows = app.rows]
             IN  IF app.err # "none" THEN [same EXCEPT !.df = df2] @@ [err |-> app.err]
                 ELSE IF changed = {} THEN [same EXCEPT !.df = df2] @@ [err |-> "none"]
                 ELSE LET r == update_embeddings_for_changed_products(
                                   app.rows, cache, idx, order, failAt)
                      IN  [df |-> df2, cache |-> r.cache, idx |-> r.idx, err |-> r.err]

\* the updates mappings a caller may pass
UpdateSeqs ==
    {u \in UNION {[1..n -> [id : Ids, desc : Descs]] : n \in 1..MaxBatch} :
        \A i, j \in 1..Len(u) : i # j => u[i].id # u[j].id}

update_product_descriptions ==
    /\ nmut < MaxMut
    /\ \E updates \in UpdateSeqs :
         \E order \in Orders(IF products_df.isNone THEN {}
                             ELSE ChangedProducts(products_df.rows, updates)) :
           \E failAt \in 0..Len(order) :
             \E o \in {UpdateOutcome(products_df, embeddings_dict, _index, updates, order, failAt)} :
                 /\ products_df' = o.df
                 /\ embeddings_dict' = o.cache
                 /\ _index' = o.idx
                 /\ result' = [Outcome("update", o.err, "") EXCEPT !.q = updates]
    /\ nmut' = nmut + 1
    /\ UNCHANGED <<file, _is_index_created, removed, life>>

(***************************************************************************)
(* remove_product_by_id                                                    *)
(***************************************************************************)
\* (mutant) the row with the index label pid is dropped
DropId_ByLabel(rows, pid) == SelectSeq(rows, LAMBDA r : r.label # pid)

\* line 392: the rows whose product_id is not pid, labels kept
RECURSIVE DropId(_, _)
DropId(rows, pid) ==
    IF rows = <<>> THEN <<>>
    ELSE (IF Head(rows).product_id # pid THEN <<Head(rows)>> ELSE <<>>) \o DropId(Tail(rows), pid)

\* (mutant) an identifier that is not in the table is accepted
RemoveOutcome_NoCheck(df, cache, idx, pid) ==
    LET same == [df |-> df, cache |-> cache, idx |-> idx]
    IN  IF df.isNone THEN same @@ [err |-> "TypeError"]
        ELSE [same EXCEPT !.df = [df EXCEPT !.rows = DropId(df.rows, pid)]] @@ [err |-> "none"]

\* the instance after remove_product_by_id(pid): only the table changes
RemoveOutcome(df, cache, idx, pid) ==
    LET same == [df |-> df, cache |-> cache, idx |-> idx]
    IN  IF df.isNone THEN same @@ [err |-> "TypeError"]
        ELSE IF pid \notin ProductIds(df.rows) THEN same @@ [err |-> "ValueError"]
        ELSE [same EXCEPT !.df = [df EXCEPT !.rows = DropId(df.rows, pid)]] @@ [err |-> "none"]

remove_product_by_id ==
    /\ nmut < MaxMut
    /\ \E pid \in Ids :
         \E o \in {RemoveOutcome(products_df, embeddings_dict, _index, pid)} :
             /\ products_df' = o.df
             /\ embeddings_dict' = o.cache
             /\ _index' = o.idx
             /\ removed' = IF o.err = "none" THEN removed \cup {pid} ELSE removed
             /\ result' = [Outcome("remove", o.err, "") EXCEPT !.k = pid]
    /\ nmut' = nmut + 1
    /\ UNCHANGED <<file, _is_index_created, life>>

(***************************************************************************)
(* search_and_generate_response                                            *)
(***************************************************************************)
\* products_df.iloc[index]: the row at a position, counted from the end
\* for a negative index; IndexError outside -N..N-1
IlocInRange(rows, index) == -Len(rows) <= index /\ index < Len(rows)

Iloc(rows, index) == IF index >= 0 THEN rows[index + 1] ELSE rows[Len(rows) + index + 1]

\* the outcome of search_and_generate_response(q, llm, k): the search, then
\* one iloc lookup per returned index; only KeyError is caught, so the
\* first index out of range ends the call with IndexError.  `written` are
\* the identifiers of the rows whose fields were put into the string.
RespondOutcome(df, cache, idx, q, k, encFail, untrainedRaises) ==
    LET o == SearchOutcome(cache, idx, q, k, encFail, untrainedRaises)
        ids == [i \in 1..Len(o.res) |-> o.res[i].id]
    IN  IF o.err # "none" THEN o @@ [written |-> <<>>]
        ELSE IF Len(ids) > 0 /\ df.isNone
        THEN [o EXCEPT !.err = "AttributeError"] @@ [written |-> <<>>]
        ELSE IF \E i \in 1..Len(ids) : ~IlocInRange(df.rows, ids[i])
        THEN [o EXCEPT !.err = "IndexError"] @@ [written |-> <<>>]
        ELSE o @@ [written |-> [i \in 1..Len(ids) |-> Iloc(df.rows, ids[i]).product_id]]

\* the queries of the response tests: a word or an identifier
RespondQueries == {<<"apple">>} \cup {Str(x) : x \in Ids}

\* the k a response call passes on to search_index
RespondKs == {1}

search_and_generate_response ==
    /\ \E q \in RespondQueries, k \in RespondKs :
       \E encFail \in IF EncoderReached(_index, q, k) THEN BOOLEAN ELSE {FALSE},
          untrainedRaises \in IF EncoderReached(_index, q, k) /\ ~_index.trained
                              THEN BOOLEAN ELSE {TRUE} :
         \E o \in {RespondOutcome(products_df, embeddings_dict, _index, q, k,
                                  encFail, untrainedRaises)} :
             /\ embeddings_dict' = o.cache
             /\ result' = [NoResult EXCEPT
                           !.op = "respond", !.err = o.err, !.msg = o.msg, !.q = q, !.k = k,
                           !.dists = [i \in 1..Len(o.res) |-> o.res[i].d],
                           !.idxs = [i \in 1..Len(o.res) |-> o.res[i].id],
                           !.owners = [i \in 1..Len(o.res) |-> o.res[i].owner],
                           !.written = o.written]
    /\ UNCHANGED <<file, products_df, _index, _is_index_created, removed, nmut, life>>

Next ==
    \/ load_processed_products
    \/ create_faiss_index
    \/ search_index
    \/ search_and_generate_response
    \/ update_product_descriptions
    \/ remove_product_by_id

Spec == Init /\ [][Next]_vars

(***************************************************************************)
(* find_changed_products on its own: a static method that reads no state   *)
(***************************************************************************)
\* the old_descriptions mappings a caller may pass
OldMaps == UNION {[S -> Descs] : S \in SUBSET Ids}

\* the call of the static method with the arguments chosen at the start
find_changed_products_call ==
    /\ result.op = "find_changed_args"
    /\ result' = [result EXCEPT !.op = "find_changed",
                                !.changed = find_changed_products(result.old, result.q)]
    /\ UNCHANGED <<file, inst, removed, nmut, life>>

FindChangedInit ==
    /\ file = [exists |-> FALSE, rows |-> <<>>]
    /\ InitInstance
    /\ removed = {}
    /\ nmut = 0
    /\ \E old \in OldMaps, new \in UpdateSeqs :
         result = [NoResult EXCEPT !.op = "find_changed_args", !.old = old, !.q = new]
    /\ _instance = "obj"
    /\ pickle_file = NoPickle
    /\ hard_file = FALSE
    /\ same_path = FALSE
    /\ pc = [t \in Threads |-> "idle"]
    /\ tries = [t \in Threads |-> 0]
    /\ builders = {}
    /\ returned = [t \in Threads |-> "nothing"]
    /\ frame = [t \in Threads |-> NoFrame]
    /\ preprocessor = NoPreprocessor

FindChangedNext == find_changed_products_call

FindChangedSpec == FindChangedInit /\ [][FindChangedNext]_vars

(***************************************************************************)
(* get_instance, called by NThreads callers of one process, and            *)
(* verify_or_wait_for_file_creation.  A caller can be pre-empted between   *)
(* any two of the steps below (no lock is taken anywhere in the method).   *)
(***************************************************************************)
\* max_retries of verify_or_wait_for_file_creation
max_retries == 10

\* "index populated and cache filled": what a complete build leaves
BuildCompleted ==
    /\ ~products_df.isNone
    /\ _is_index_created
    /\ ~_index.isNone /\ _index.trained /\ _index.items # <<>>
    /\ ProductIds(products_df.rows) \subseteq DOMAIN embeddings_dict

Goto(t, l) == pc' = [pc EXCEPT ![t] = l]

\* line 39: if cls._instance is None
gi_check(t) ==
    /\ pc[t] = "idle"
    /\ Goto(t, IF _instance = "None" THEN "exists" ELSE "return")
    /\ UNCHANGED <<file, inst, api, _instance, pickle_file, hard_file, same_path,
                   tries, builders, returned,
                   frame, preprocessor>>

\* line 49: if os.path.exists(pickle_file)
gi_exists(t) ==
    /\ pc[t] = "exists"
    /\ Goto(t, IF pickle_file.exists THEN "unpickle" ELSE "new")
    /\ UNCHANGED <<file, inst, api, _instance, pickle_file, hard_file, same_path,
                   tries, builders, returned,
                   frame, preprocessor>>

\* lines 51-57: cls._instance = pickle.load(file); a failure is re-raised
gi_unpickle(t) ==
    /\ pc[t] = "unpickle"
    /\ IF pickle_file.exists /\ pickle_file.ok
       THEN /\ _instance' = "obj"
            /\ products_df' = pickle_file.inst.df
            /\ embeddings_dict' = pickle_file.inst.cache
            /\ _index' = pickle_file.inst.idx
            /\ _is_index_created' = pickle_file.inst.created
            /\ Goto(t, "return")
       ELSE /\ Goto(t, "raised")
            /\ UNCHANGED <<inst, _instance>>
    /\ UNCHANGED <<file, api, pickle_file, hard_file, same_path, tries, builders, returned, frame, preprocessor>>

\* line 60: cls._instance = cls(products_file=products_file)
gi_new(t) ==
    /\ pc[t] = "new"
    /\ _instance' = "obj"
    /\ products_df' = NoneDf
    /\ embeddings_dict' = <<>>
    /\ _index' = NoneIndex
    /\ _is_index_created' = FALSE
    /\ builders' = builders \cup {t}
    /\ tries' = [tries EXCEPT ![t] = 0]
    /\ Goto(t, "wait")
    /\ UNCHANGED <<file, api, pickle_file, hard_file, same_path, returned, frame, preprocessor>>

\* (mutant) the loop gives up one check later
gi_wait_OneMore(t) ==
    /\ pc[t] = "wait"
    /\ tries' = [tries EXCEPT ![t] = @ + 1]
    /\ Goto(t, IF hard_file THEN "load"
               ELSE IF tries[t] + 1 > max_retries THEN "notfound" ELSE "wait")
    /\ UNCHANGED <<file, inst, api, _instance, pickle_file, hard_file, same_path,
                   builders, returned,
                   frame, preprocessor>>

\* line 62, one pass of the loop of verify_or_wait_for_file_creation: the
\* hard-coded path is checked; found: break; absent: sleep, and after
\* max_retries checks FileNotFoundError is raised (lines 467-469)
gi_wait(t) ==
    /\ pc[t] = "wait"
    /\ tries' = [tries EXCEPT ![t] = @ + 1]
    /\ Goto(t, IF hard_file THEN "load"
               ELSE IF tries[t] + 1 >= max_retries THEN "notfound" ELSE "wait")
    /\ UNCHANGED <<file, inst, api, _instance, pickle_file, hard_file, same_path,
                   builders, returned,
                   frame, preprocessor>>

\* line 63: cls._instance.load_processed_products()
gi_load(t) ==
    /\ pc[t] = "load"
    /\ products_df' = LoadedDf(file, products_df)
    /\ Goto(t, "create")
    /\ UNCHANGED <<file, embeddings_dict, _index, _is_index_created, api, _instance,
                   pickle_file, hard_file, same_path, tries, builders, returned,
                   frame, preprocessor>>

\* line 64: cls._instance.create_faiss_index()
gi_create(t) ==
    /\ pc[t] = "create"
    /\ \E failed \in SUBSET (0..(NumBatches(Len(products_df.rows)) - 1)), trainOk \in BOOLEAN :
         \E o \in {CreateOutcome(products_df, embeddings_dict, _index, _is_index_created,
                                failed, trainOk)} :
             /\ embeddings_dict' = o.cache
             /\ _index' = o.idx
             /\ _is_index_created' = o.created
             /\ Goto(t, IF o.err = "none" THEN "dump" ELSE "failed")
    /\ UNCHANGED <<file, products_df, api, _instance, pickle_file, hard_file, same_path,
                   tries, builders, returned,
                   frame, preprocessor>>

\* lines 65-66: open(pickle_file, 'wb') creates the file, pickle.dump fills
\* it; when the dump raises the file is left incomplete
gi_dump(t) ==
    /\ pc[t] = "dump"
    /\ \E ok \in BOOLEAN :
         /\ pickle_file' = [exists |-> TRUE, ok |-> ok,
                            inst |-> IF ok THEN [df |-> products_df, cache |-> embeddings_dict,
                                                 idx |-> _index, created |-> _is_index_created]
                                     ELSE NoPickle.inst]
         /\ Goto(t, IF ok THEN "return" ELSE "failed")
    /\ UNCHANGED <<file, inst, api, _instance, hard_file, same_path, tries, builders,
                   returned,
                   frame, preprocessor>>

\* line 74: return cls._instance
gi_return(t) ==
    /\ pc[t] = "return"
    /\ returned' = [returned EXCEPT ![t] = IF BuildCompleted THEN "built" ELSE "unbuilt"]
    /\ Goto(t, "done")
    /\ UNCHANGED <<file, inst, api, _instance, pickle_file, hard_file, same_path,
                   tries, builders,
                   frame, preprocessor>>

\* the call ends with an exception: line 57 re-raises what pickle.load
\* raised ("raised"); lines 68-70 catch every exception of the build,
\* FileNotFoundError of the wait included, and raise RuntimeError
gi_raise(t) ==
    /\ pc[t] \in {"raised", "failed", "notfound"}
    /\ returned' = [returned EXCEPT ![t] = IF pc[t] = "raised" THEN "raised"
                                           ELSE "RuntimeError"]
    /\ Goto(t, "done")
    /\ UNCHANGED <<file, inst, api, _instance, pickle_file, hard_file, same_path,
                   tries, builders,
                   frame, preprocessor>>

\* the upstream preprocessing writes processed_products.parquet
file_appears ==
    /\ ~hard_file
    /\ hard_file' = TRUE
    /\ IF same_path
       THEN \E t \in FileTables : file' = [exists |-> TRUE, rows |-> t]
       ELSE UNCHANGED file
    /\ UNCHANGED <<inst, api, _instance, pickle_file, same_path, pc, tries, builders,
                   returned,
                   frame, preprocessor>>

\* one process start: no instance yet; a snapshot of an earlier run may
\* exist, complete or not
SingletonInit ==
    /\ file \in {[exists |-> FALSE, rows |-> <<>>]}
                  \cup {[exists |-> TRUE, rows |-> t] : t \in FileTables}
    /\ same_path \in BOOLEAN
    /\ hard_file \in BOOLEAN
    /\ same_path => (hard_file = file.exists)
    /\ InitInstance
    /\ _instance = "None"
    /\ pickle_file \in {NoPickle, [NoPickle EXCEPT !.exists = TRUE]}
                         \cup {[exists |-> TRUE, ok |-> TRUE,
                                inst |-> [df |-> o.df, cache |-> o.cache, idx |-> o.idx,
                                          created |-> o.created]] :
                               o \in {Snapshot(t) : t \in {u \in FileTables : Len(u) = MaxN}}}
    /\ removed = {}
    /\ nmut = 0
    /\ result = NoResult
    /\ pc = [t \in Threads |-> "idle"]
    /\ tries = [t \in Threads |-> 0]
    /\ builders = {}
    /\ returned = [t \in Threads |-> "nothing"]
    /\ frame = [t \in Threads |-> NoFrame]
    /\ preprocessor = NoPreprocessor

SingletonNext ==
    \/ \E t \in Threads : gi_check(t)
    \/ \E t \in Threads : gi_exists(t)
    \/ \E t \in Threads : gi_unpickle(t)
    \/ \E t \in Threads : gi_new(t)
    \/ \E t \in Threads : gi_wait(t)
    \/ \E t \in Threads : gi_load(t)
    \/ \E t \in Threads : gi_create(t)
    \/ \E t \in Threads : gi_dump(t)
    \/ \E t \in Threads : gi_return(t)
    \/ \E t \in Threads : gi_raise(t)
    \/ file_appears

SingletonSpec == SingletonInit /\ [][SingletonNext]_vars

\* a caller inside verify_or_wait_for_file_creation keeps running:
\* os.path.exists and time.sleep(wait_time) return
WaitFairSpec == SingletonSpec /\ \A t \in Threads : WF_vars(gi_wait(t))


(***************************************************************************)
(* Methods of the shared instance called by NThreads callers at once.  No  *)
(* method takes a lock, so a caller can be pre-empted between any two      *)
(* statements; each action below is one statement (or one loop iteration)  *)
(* of remove_product_by_id, update_product_descriptions with               *)
(* update_embeddings_for_changed_products, or one search_index call.       *)
(***************************************************************************)
\* what the actions of this section leave alone
rest == <<file, _is_index_created, nmut, _instance, pickle_file, hard_file, same_path,
          tries, builders, returned, preprocessor>>

SetFrame(t, f) == frame' = [frame EXCEPT ![t] = f]

\* the call ends: normally, or with the exception e
Finish(t, e) == /\ Goto(t, "done")
                /\ SetFrame(t, [frame[t] EXCEPT !.err = e])

\* a caller enters remove_product_by_id(pid)
cc_remove(t) ==
    /\ pc[t] = "idle"
    /\ \E pid \in Ids : SetFrame(t, [NoFrame EXCEPT !.op = "remove", !.pid = pid])
    /\ Goto(t, "rm_check")
    /\ UNCHANGED <<inst, removed, result, rest>>

\* lines 388-389: if product_id not in self.products_df['product_id'].values
rm_check(t) ==
    /\ pc[t] = "rm_check"
    /\ IF frame[t].pid \in ProductIds(products_df.rows)
       THEN Goto(t, "rm_filter") /\ UNCHANGED frame
       ELSE Finish(t, "ValueError")
    /\ UNCHANGED <<inst, removed, result, rest>>

\* line 392, right-hand side: the filtered copy of the table as it is now
rm_filter(t) ==
    /\ pc[t] = "rm_filter"
    /\ SetFrame(t, [frame[t] EXCEPT !.tmp = DropId(products_df.rows, frame[t].pid)])
    /\ Goto(t, "rm_assign")
    /\ UNCHANGED <<inst, removed, result, rest>>

\* line 392, the assignment: self.products_df = <the filtered copy>
rm_assign(t) ==
    /\ pc[t] = "rm_assign"
    /\ products_df' = [isNone |-> FALSE, rows |-> frame[t].tmp]
    /\ removed' = removed \cup {frame[t].pid}
    /\ Finish(t, "none")
    /\ UNCHANGED <<embeddings_dict, _index, _is_index_created, result, rest>>

\* a caller enters update_product_descriptions(updates); lines 345-346
\* compute the changed set from the table as it is now
cc_update(t) ==
    /\ pc[t] = "idle"
    /\ \E updates \in UpdateSeqs :
         \E order \in Orders(ChangedProducts(products_df.rows, updates)) :
            SetFrame(t, [NoFrame EXCEPT !.op = "update", !.updates = updates,
                                        !.order = order])
    /\ Goto(t, "up_rewrite")
    /\ UNCHANGED <<inst, removed, result, rest>>

\* lines 351-356, one iteration: KeyError, or the entry is rewritten
up_rewrite(t) ==
    /\ pc[t] = "up_rewrite"
    /\ LET f == frame[t]
           u == f.updates[f.i]
       IN  IF u.id \notin ProductIds(products_df.rows)
           THEN Finish(t, "KeyError") /\ UNCHANGED products_df
           ELSE /\ products_df' = [products_df EXCEPT !.rows = Rewrite(@, u.id, u.desc)]
                /\ IF f.i < Len(f.updates)
                   THEN Goto(t, "up_rewrite") /\ SetFrame(t, [f EXCEPT !.i = @ + 1])
                   ELSE IF f.order # <<>>
                   THEN Goto(t, "up_embed") /\ SetFrame(t, [f EXCEPT !.i = 1])
                   ELSE Finish(t, "none")
    /\ UNCHANGED <<embeddings_dict, _index, removed, result, rest>>

\* lines 368-369: the text is read by index label and encoded, and the
\* vector is added to the index under the product id
up_embed(t) ==
    /\ pc[t] = "up_embed"
    /\ LET f == frame[t]
           pid == f.order[f.i]
       IN  IF pid \notin Labels(products_df.rows) \/ _index.isNone \/ ~_index.trained
           THEN Finish(t, "RuntimeError") /\ UNCHANGED _index
           ELSE \E v \in {encode_text_to_embedding(<<TextAt(products_df.rows, pid)>>, {})[1]} :
                  /\ _index' = [_index EXCEPT !.items =
                                   Append(@, [id |-> pid, v |-> v, owner |-> pid])]
                  /\ SetFrame(t, [f EXCEPT !.vec = v])
                  /\ Goto(t, "up_cache")
    /\ UNCHANGED <<products_df, embeddings_dict, _is_index_created, removed, result, rest>>

\* line 370: self.embeddings_dict[product_id] = new_embedding
up_cache(t) ==
    /\ pc[t] = "up_cache"
    /\ LET f == frame[t]
       IN  /\ embeddings_dict' = Put(embeddings_dict, f.order[f.i], Vec(f.vec))
           /\ IF f.i < Len(f.order)
              THEN Goto(t, "up_embed") /\ SetFrame(t, [f EXCEPT !.i = @ + 1])
              ELSE Finish(t, "none")
    /\ UNCHANGED <<products_df, _index, _is_index_created, removed, result, rest>>

\* a caller runs search_index(q, 1), taken as one step
cc_search(t) ==
    /\ pc[t] = "idle"
    /\ \E q \in RespondQueries :
         \E o \in {SearchOutcome(embeddings_dict, _index, q, 1, FALSE, TRUE)} :
             /\ embeddings_dict' = o.cache
             /\ result' = [NoResult EXCEPT
                           !.op = "search", !.err = o.err, !.msg = o.msg, !.q = q, !.k = 1,
                           !.dists = [i \in 1..Len(o.res) |-> o.res[i].d],
                           !.idxs = [i \in 1..Len(o.res) |-> o.res[i].id],
                           !.owners = [i \in 1..Len(o.res) |-> o.res[i].owner]]
             /\ SetFrame(t, [NoFrame EXCEPT !.op = "search", !.err = o.err])
    /\ Goto(t, "done")
    /\ UNCHANGED <<products_df, _index, _is_index_created, removed, rest>>

\* the instance is built from a file of MaxN entries before the callers start
ConcurrentInit ==
    /\ \E t \in {u \in FileTables : Len(u) = MaxN} :
         /\ file = [exists |-> TRUE, rows |-> t]
         /\ \E o \in {Snapshot(t)} :
              /\ products_df = o.df
              /\ embeddings_dict = o.cache
              /\ _index = o.idx
              /\ _is_index_created = o.created
    /\ removed = {}
    /\ nmut = 0
    /\ result = NoResult
    /\ _instance = "obj"
    /\ pickle_file = NoPickle
    /\ hard_file = FALSE
    /\ same_path = FALSE
    /\ pc = [t \in Threads |-> "idle"]
    /\ tries = [t \in Threads |-> 0]
    /\ builders = {}
    /\ returned = [t \in Threads |-> "nothing"]
    /\ frame = [t \in Threads |-> NoFrame]
    /\ preprocessor = NoPreprocessor

ConcurrentNext ==
    \/ \E t \in Threads : cc_remove(t)
    \/ \E t \in Threads : rm_check(t)
    \/ \E t \in Threads : rm_filter(t)
    \/ \E t \in Threads : rm_assign(t)
    \/ \E t \in Threads : cc_update(t)
    \/ \E t \in Threads : up_rewrite(t)
    \/ \E t \in Threads : up_embed(t)
    \/ \E t \in Threads : up_cache(t)
    \/ \E t \in Threads : cc_search(t)

ConcurrentSpec == ConcurrentInit /\ [][ConcurrentNext]_vars

(***************************************************************************)
(* DataPreprocessor.preprocess_data (modules/preprocess_data.py), the       *)
(* upstream step that writes processed_products.parquet                    *)
(***************************************************************************)
\* what a step of preprocess_data leaves alone
upstream == <<file, inst, api, _instance, pickle_file, same_path, pc, tries, builders,
              returned, frame>>

\* the preprocessor after a step; the 'products' output is the file whose
\* existence verify_or_wait_for_file_creation checks
SetPreprocessor(p) ==
    /\ preprocessor' = p
    /\ hard_file' = ("products" \in p.disk)
    /\ UNCHANGED upstream

\* lines 64-66: the three dataset files are read outside the try block, so
\* a failure leaves the call as an exception
pp_read ==
    /\ preprocessor.pc = "idle"
    /\ \E ok \in BOOLEAN :
         SetPreprocessor(IF ok THEN [preprocessor EXCEPT !.pc = "clean"]
                         ELSE [preprocessor EXCEPT !.pc = "done",
                                                   !.err = "FileNotFoundError"])

\* lines 79-113: cleaning and the combined_text feature; a missing column
\* raises KeyError, which the handler of line 142 takes.  The output
\* directory is the directory the inputs were read from, so it exists.
pp_clean ==
    /\ preprocessor.pc = "clean"
    /\ \E ok \in BOOLEAN :
         SetPreprocessor(IF ok THEN [preprocessor EXCEPT !.pc = "remove", !.i = 1]
                         ELSE [preprocessor EXCEPT !.pc = "except", !.err = "Exception"])

\* lines 119-125 for the i-th output: an existing file is removed
pp_remove ==
    /\ preprocessor.pc = "remove"
    /\ \E e \in IF Outputs[preprocessor.i] \in preprocessor.disk
                 THEN {"none", "PermissionError"} ELSE {"none"} :
         SetPreprocessor(IF e = "none"
                         THEN [preprocessor EXCEPT !.pc = "write",
                                                   !.disk = @ \ {Outputs[preprocessor.i]}]
                         ELSE [preprocessor EXCEPT !.pc = "except", !.err = e])

\* lines 127-134 for the i-th output: to_csv / to_parquet; after the last
\* output the try block ends (line 136)
pp_write ==
    /\ preprocessor.pc = "write"
    /\ \E e \in {"none", "FileNotFoundError", "PermissionError", "Exception"} :
         SetPreprocessor(IF e = "none"
                         THEN [preprocessor EXCEPT
                                 !.pc = IF preprocessor.i = Len(Outputs)
                                        THEN "mapping" ELSE "remove",
                                 !.i = IF preprocessor.i = Len(Outputs) THEN @ ELSE @ + 1,
                                 !.disk = @ \cup {Outputs[preprocessor.i]},
                                 !.written = @ \cup {Outputs[preprocessor.i]}]
                         ELSE [preprocessor EXCEPT !.pc = "except", !.err = e])

\* lines 138-144: the handlers of FileNotFoundError and PermissionError
\* only log, so the method goes on after the try statement; the handler
\* of every other exception returns
pp_except ==
    /\ preprocessor.pc = "except"
    /\ SetPreprocessor([preprocessor EXCEPT
                          !.pc = IF preprocessor.err \in {"FileNotFoundError",
                                                          "PermissionError"}
                                 THEN "mapping" ELSE "done"])

\* lines 146-153: the product mappings, then preprocessing_complete = True
pp_mapping ==
    /\ preprocessor.pc = "mapping"
    /\ SetPreprocessor([preprocessor EXCEPT !.pc = "done",
                                            !.preprocessing_complete = TRUE])

\* is_preprocessing_complete()
is_preprocessing_complete == preprocessor.preprocessing_complete

\* a new DataPreprocessor; output files of an earlier run may exist
PreprocessInit ==
    /\ file = [exists |-> FALSE, rows |-> <<>>]
    /\ InitInstance
    /\ removed = {}
    /\ nmut = 0
    /\ result = NoResult
    /\ _instance = "None"
    /\ pickle_file = NoPickle
    /\ same_path = FALSE
    /\ pc = [t \in Threads |-> "idle"]
    /\ tries = [t \in Threads |-> 0]
    /\ builders = {}
    /\ returned = [t \in Threads |-> "nothing"]
    /\ frame = [t \in Threads |-> NoFrame]
    /\ \E d \in SUBSET {Outputs[j] : j \in 1..Len(Outputs)} :
         /\ preprocessor = [NoPreprocessor EXCEPT !.disk = d]
         /\ hard_file = ("products" \in d)

PreprocessNext ==
    \/ pp_read
    \/ pp_clean
    \/ pp_remove
    \/ pp_write
    \/ pp_except
    \/ pp_mapping

PreprocessSpec == PreprocessInit /\ [][PreprocessNext]_vars

(***************************************************************************)
(* Properties                                                              *)
(***************************************************************************)
\* a complete create_faiss_index produced the index now held
IndexBuilt == _is_index_created /\ ~_index.isNone /\ _index.trained

\* the index holds a vector computed for entry x
IndexCovers(x) == \E i \in 1..Len(_index.items) : _index.items[i].owner = x

SearchReturned == result.op = "search" /\ result.err = "none"

\* the query is empty or holds white space only
AllSpaces(q) == \A i \in 1..Len(q) : q[i] = " "

\* C1: after remove_product_by_id(x) succeeded, no element returned by a
\* later search_index stands for x (neither the direct match of the query
\* str(x) nor a FAISS hit on a vector of x), until x is loaded again
C1_RemovedNeverReturned ==
    SearchReturned => \A j \in 1..Len(result.owners) : result.owners[j] \notin removed

C3_BuildAtMostOnce == Cardinality(builders) <= 1

\* C4: every get_instance call that returns normally returns an instance
\* whose build has completed
C4_ReturnedBuilt == \A t \in Threads : returned[t] # "unbuilt"

\* C5: once the index is built, the keys of embeddings_dict are exactly the
\* identifiers of products_df
C5_CacheKeysEqualTable ==
    (_is_index_created /\ ~products_df.isNone)
        => DOMAIN embeddings_dict = ProductIds(products_df.rows)

\* C6: update_product_descriptions with a batch that names an identifier
\* not in the table fails with KeyError, and no entry has its description
\* rewritten without its cached embedding being the encoding of its new
\* text
C6_FailedBatchConsistent ==
    [][(/\ result'.op = "update"
        /\ ~products_df.isNone
        /\ Keys(result'.q) \ ProductIds(products_df.rows) # {})
       => /\ result'.err = "KeyError"
          /\ \A i \in 1..Len(products_df.rows) :
                products_df'.rows[i].desc # products_df.rows[i].desc
                => /\ products_df.rows[i].product_id \in DOMAIN embeddings_dict'
                   /\ embeddings_dict'[products_df.rows[i].product_id]
                          = Vec(Embed(products_df'.rows[i].ctext))]_vars

\* C7: while create_faiss_index has never completed, search_index with a
\* non-blank query and k > 0 fails with "Index is not initialized."
C7_UnbuiltSearchFails ==
    (result.op = "search" /\ ~_is_index_created /\ ~AllSpaces(result.q) /\ result.k > 0)
        => (result.err = "RuntimeError" /\ result.msg = "Index is not initialized.")

\* C8 (as claimed): in every state of the instance a blank query fails with
\* ValueError "Query string cannot be empty." and k <= 0 fails with a
\* validation error, nothing being changed
C8_ValidationAlways ==
    [][result'.op = "search" =>
        /\ AllSpaces(result'.q) =>
              (result'.err = "ValueError" /\ result'.msg = "Query string cannot be empty.")
        /\ result'.k <= 0 => result'.err \in {"ValueError", "TypeError"}
        /\ (AllSpaces(result'.q) \/ result'.k <= 0) => UNCHANGED inst]_vars

\* C8 (amended): the same on an instance whose _index is set; while _index
\* is None both calls fail with "Index is not initialized." instead; in
\* both cases table, cache and index are unchanged
C8_ValidationWhenIndexSet ==
    [][(result'.op = "search" /\ (AllSpaces(result'.q) \/ result'.k <= 0)) =>
        /\ UNCHANGED inst
        /\ _index.isNone =>
              (result'.err = "RuntimeError" /\ result'.msg = "Index is not initialized.")
        /\ (~_index.isNone /\ AllSpaces(result'.q)) =>
              (result'.err = "ValueError" /\ result'.msg = "Query string cannot be empty.")
        /\ (~_index.isNone /\ ~AllSpaces(result'.q)) => result'.err = "TypeError"]_vars

C8_Witness ==
    /\ result.op = "search" /\ result.q = <<" ">> /\ result.k > 0
    /\ IndexBuilt
    /\ result.err = "ValueError" /\ result.msg = "Query string cannot be empty."

\* C9: a search that returns gives two sequences of equal length, at most
\* k FAISS results and at most one direct match, so at most k + 1 elements
C9_AtMostKPlusOne ==
    SearchReturned =>
        LET exact == {j \in 1..Len(result.idxs) :
                         result.idxs[j] = -1 /\ result.dists[j] = 0}
        IN  /\ Len(result.dists) = Len(result.idxs)
            /\ Cardinality(exact) <= 1
            /\ Len(result.idxs) - Cardinality(exact) <= result.k
            /\ Len(result.idxs) <= result.k + 1

C9_Witness ==
    /\ SearchReturned /\ result.k = 1
    /\ Len(_index.items) > 1
    /\ Len(result.idxs) = 2 /\ result.idxs[1] = -1 /\ result.idxs[2] # -1

\* C10: the encoder gives create_faiss_index one vector per text, in the
\* order of the texts (it has no path on which a failed batch raises)
C10_OneVectorPerText ==
    (result.op = "create" /\ ~products_df.isNone) =>
        /\ Len(result.emb) = Len(products_df.rows)
        /\ \A i \in 1..Len(products_df.rows) :
               result.emb[i] = Embed(products_df.rows[i].ctext)

\* C11: on a built index a search_index call, returning or raising, leaves
\* the embedding cache, the index and the table as they were
C11_SearchReadOnly ==
    [][(result'.op = "search" /\ IndexBuilt) => UNCHANGED inst]_vars

\* C12: remove_product_by_id(x) on a table that does not hold x fails with
\* ValueError (product not found) and changes nothing
C12_RemoveUnknownFails ==
    [][(/\ result'.op = "remove"
        /\ ~products_df.isNone
        /\ result'.k \notin ProductIds(products_df.rows))
       => (result'.err = "ValueError" /\ UNCHANGED inst)]_vars

C12_Witness ==
    /\ result.op = "remove" /\ result.err = "ValueError"
    /\ ~products_df.isNone /\ Len(products_df.rows) = MaxN
    /\ result.k \notin ProductIds(products_df.rows)
    /\ IndexBuilt

C14_UpdateRewritesNamed ==
    [][(/\ result'.op = "update" /\ result'.err = "none"
        /\ ~products_df.isNone
        /\ Keys(result'.q) \subseteq ProductIds(products_df.rows))
       => /\ Len(products_df'.rows) = Len(products_df.rows)
          /\ \A i \in 1..Len(products_df.rows) :
                LET old == products_df.rows[i]
                    new == products_df'.rows[i]
                IN  IF old.product_id \in Keys(result'.q)
                    THEN /\ new.product_id = old.product_id
                         /\ new.desc = ValueOf(result'.q, old.product_id)
                         /\ new.title = old.title
                    ELSE new = old]_vars

C14_Witness ==
    /\ result.op = "update" /\ result.err = "none"
    /\ ~products_df.isNone /\ Len(products_df.rows) = MaxN
    /\ \E i, j \in 1..Len(products_df.rows) :
          /\ products_df.rows[i].product_id \in Keys(result.q)
          /\ products_df.rows[i].desc = <<"dB">>
          /\ products_df.rows[j].product_id \notin Keys(result.q)
          /\ products_df.rows[j].desc = <<"dA">>

\* C15: find_changed_products(old, new) returns exactly the keys p of new
\* whose old.get(p) differs from new[p], a key that old does not hold
\* being one of them, and no key that is not in new
C15_ChangedExactly ==
    result.op = "find_changed" =>
        /\ result.changed \subseteq Keys(result.q)
        /\ \A p \in Keys(result.q) :
              p \in result.changed
                  <=> (p \notin DOMAIN result.old \/ result.old[p] # ValueOf(result.q, p))

C15_Witness ==
    /\ result.op = "find_changed"
    /\ Len(result.q) = MaxBatch
    /\ \E p, r \in Keys(result.q) :
          /\ p \notin DOMAIN result.old /\ p \in result.changed
          /\ r \in DOMAIN result.old /\ r \notin result.changed

\* C16: the fields search_and_generate_response writes for each returned
\* result are those of the entry the result stands for: the queried entry
\* for the direct match, the entry whose vector was hit for a FAISS result
C16_ResponseFieldsOfResult ==
    (result.op = "respond" /\ result.err = "none" /\ IndexBuilt /\ ~products_df.isNone)
        => /\ Len(result.written) = Len(result.idxs)
           /\ \A j \in 1..Len(result.idxs) :
                 result.owners[j] \in ProductIds(products_df.rows)
                     => result.written[j] = result.owners[j]

\* C17: a get_instance call that found no snapshot and whose bounded wait
\* ended without the file fails with the not-found error
\* (FileNotFoundError), building no index and writing no snapshot
C17_WaitTimeoutNotFound ==
    [][\A t \in Threads :
          (pc[t] = "notfound" /\ pc'[t] = "done")
              => /\ returned'[t] = "FileNotFoundError"
                 /\ UNCHANGED <<inst, pickle_file>>]_vars

\* table, cache and index: now, and when the callers started
Now == [df |-> products_df, cache |-> embeddings_dict, idx |-> _index]

Proj(o) == [df |-> o.df, cache |-> o.cache, idx |-> o.idx]

Start == Proj(Snapshot(file.rows))

\* the states the call of frame f, run alone from state st, can end in
Alone(st, f) ==
    IF f.op = "remove" THEN {Proj(RemoveOutcome(st.df, st.cache, st.idx, f.pid))}
    ELSE IF f.op = "update"
    THEN {Proj(UpdateOutcome(st.df, st.cache, st.idx, f.updates, order, 0)) :
             order \in Orders(ChangedProducts(st.df.rows, f.updates))}
    ELSE {st}

\* the states the calls end in when run one after the other in the order ts
RECURSIVE Serial(_, _, _)
Serial(S, ts, i) ==
    IF i > Len(ts) THEN S
    ELSE Serial(UNION {Alone(st, frame[ts[i]]) : st \in S}, ts, i + 1)

\* C18: when concurrent mutation calls (update_product_descriptions,
\* remove_product_by_id) have all ended, table, cache and index are what
\* the calls give when run one after the other in some order; so two
\* removals of distinct identifiers of the table leave both removed
C18_MutationsSerialized ==
    (/\ \A t \in Threads : pc[t] = "done"
     /\ \A t \in Threads : frame[t].op \in {"remove", "update"})
        => Now \in UNION {Serial({Start}, ts, 1) : ts \in Orders(Threads)}

\* C19: a search_index call made while another caller runs
\* update_product_descriptions finds table, cache and index either as
\* they were before the update or as the complete update leaves them
C19_SearchSeesWholeUpdate ==
    [][\A s, u \in Threads :
          (/\ s # u
           /\ pc[s] = "idle" /\ pc'[s] = "done" /\ frame'[s].op = "search"
           /\ frame[u].op = "update"
           /\ \A t \in Threads \ {s, u} : frame[t].op = "none")
              => Now \in {Start} \cup Alone(Start, frame[u])]_vars


\* C20: when create_faiss_index completes directly after a create_faiss_index
\* that completed, with no other call between the two, the table, the cache
\* and the ANN index are what they were after the first call, and so
\* search_index gives the same result for every query and k
C20_RebuildIdempotent ==
    [][(/\ result.op = "create" /\ result.err = "none"
        /\ result'.op = "create" /\ result'.err = "none")
          => /\ products_df' = products_df
             /\ embeddings_dict' = embeddings_dict
             /\ _index' = _index
             /\ _is_index_created' = _is_index_created
             /\ \A q \in Queries, k \in Ks :
                   SearchOutcome(embeddings_dict', _index', q, k, FALSE, FALSE)
                     = SearchOutcome(embeddings_dict, _index, q, k, FALSE, FALSE)]_vars

C20_Witness ==
    /\ result.op = "create" /\ result.err = "none" /\ result.again
    /\ Len(_index.items) = MaxN

\* the first returned element is the synthesized exact match: distance 0
\* with the marker -1
DirectFirst(r) == Len(r.idxs) >= 1 /\ r.idxs[1] = -1 /\ r.dists[1] = 0

\* C21: a search_index call that returns the zero-distance exact match was
\* given a query that parses as an integer identifier which the cache held
\* when the call started and which was not removed
C21_DirectOnlyForCached ==
    [][(result'.op = "search" /\ result'.err = "none" /\ DirectFirst(result'))
          => /\ CanParseInt(result'.q)
             /\ ParseInt(result'.q) \in DOMAIN embeddings_dict
             /\ ParseInt(result'.q) \notin removed]_vars

\* C22: when update_product_descriptions returns after changing the
\* description of the entry x of the table, the cache holds for x the
\* encoding of x's own title followed by x's new description
C22_CacheHoldsOwnText ==
    [][(result'.op = "update" /\ result'.err = "none" /\ ~products_df.isNone)
          => \A i \in 1..Len(products_df.rows) :
                LET x == products_df.rows[i].product_id
                IN  (/\ x \in Keys(result'.q)
                     /\ ValueOf(result'.q, x) # products_df.rows[i].desc)
                    => /\ x \in DOMAIN embeddings_dict'
                       /\ embeddings_dict'[x]
                            = Vec(Embed(CombinedOf(products_df.rows[i].title,
                                                   ValueOf(result'.q, x))))]_vars

\* the numeric ids of the vectors a step added to the index
AddedIds == {_index'.items[j].id : j \in (Len(_index.items) + 1)..Len(_index'.items)}

\* C23: when update_product_descriptions returns, the entries it encoded
\* again and inserted into the index are exactly the identifiers of the
\* updates whose description in the table, looked up by product identifier,
\* differed from the proposed one
C23_ReencodesChangedOnly ==
    [][(result'.op = "update" /\ result'.err = "none" /\ ~products_df.isNone)
          => AddedIds = {x \in Keys(result'.q) \cap ProductIds(products_df.rows) :
                            RowOfId(products_df.rows, x).desc # ValueOf(result'.q, x)}]_vars

\* C24: the vectors of the index pair numeric ids with entries one to one:
\* two vectors under one numeric id belong to one entry, and two vectors
\* of one entry are under one numeric id
C24_NumericIdsBijective ==
    \A i, j \in 1..Len(_index.items) :
        (_index.items[i].id = _index.items[j].id)
            <=> (_index.items[i].owner = _index.items[j].owner)

\* the vectors the index holds under the numeric id n
VectorsAt(n) == {j \in 1..Len(_index.items) : _index.items[j].id = n}

\* C25: after create_faiss_index completed on a table of N entries the index
\* holds N vectors, under each numeric id i of 0..N-1 the encoding of the
\* combined text of the entry at position i, and the cache holds the same
\* vector for that entry's identifier
C25_BuildByPosition ==
    (result.op = "create" /\ result.err = "none")
        => /\ Len(_index.items) = Len(products_df.rows)
           /\ \A i \in 1..Len(products_df.rows) :
                 /\ Cardinality(VectorsAt(i - 1)) = 1
                 /\ \A j \in VectorsAt(i - 1) :
                       _index.items[j].v = Embed(products_df.rows[i].ctext)
                 /\ products_df.rows[i].product_id \in DOMAIN embeddings_dict
                 /\ embeddings_dict[products_df.rows[i].product_id]
                        = Vec(Embed(products_df.rows[i].ctext))

C25_Witness ==
    /\ result.op = "create" /\ result.err = "none"
    /\ Len(products_df.rows) = MaxN
    /\ products_df.rows[1].product_id # 0
    /\ result.emb # <<>>

\* C26: after create_faiss_index completed, whatever updates and removals
\* came before it, the identifiers for which the cache holds a vector are
\* the identifiers of the table, the index holds one vector per entry of
\* the table, and search_index returns no element for an identifier that
\* was removed
C26_RebuildMatchesLiveSet ==
    (result.op = "create" /\ result.err = "none")
        => /\ {x \in DOMAIN embeddings_dict : embeddings_dict[x].isvec}
                 = ProductIds(products_df.rows)
           /\ Len(_index.items) = Len(products_df.rows)
           /\ \A x \in removed \ ProductIds(products_df.rows) :
                 \A e \in {FALSE, TRUE} :
                     LET o == SearchOutcome(embeddings_dict, _index, Str(x), 1, e, FALSE)
                     IN  \A j \in 1..Len(o.res) : o.res[j].owner # x

\* C27: a search_index call returns normally only when the query was
\* encoded and the index was searched, so that the result holds the k
\* elements of the FAISS search
C27_SearchFailurePropagates ==
    SearchReturned => /\ result.emb # <<>>
                      /\ Len(result.idxs) >= result.k

\* C28: every value the cache holds is an embedding vector
C28_CacheHoldsVectors ==
    \A x \in DOMAIN embeddings_dict : embeddings_dict[x].isvec

\* C29: load_processed_products on an absent file ends with
\* FileNotFoundError, and a load that returns normally leaves a table set
C29_LoadAbsentFails ==
    result.op = "load"
        => /\ ~file.exists => result.err = "FileNotFoundError"
           /\ result.err = "none" => ~products_df.isNone

\* C30: verify_or_wait_for_file_creation makes at most max_retries
\* existence checks; a check that finds the file ends the wait at once with
\* a normal return, a check that does not find it ends the wait with
\* FileNotFoundError exactly when it was the max_retries-th one; and every
\* caller that waits leaves the wait
C30_WaitTerminates ==
    /\ [](\A t \in Threads : tries[t] <= max_retries)
    /\ [][\A t \in Threads :
            /\ (pc[t] = "wait" /\ tries'[t] # tries[t])
                  => /\ tries'[t] = tries[t] + 1
                     /\ hard_file => pc'[t] = "load"
                     /\ ~hard_file => pc'[t] = IF tries'[t] = max_retries
                                               THEN "notfound" ELSE "wait"
            /\ (pc[t] # "notfound" /\ pc'[t] = "notfound")
                  => pc[t] = "wait" /\ ~hard_file /\ tries'[t] = max_retries]_vars
    /\ \A t \in Threads : (pc[t] = "wait") ~> (pc[t] # "wait")

C30_Witness ==
    \E t, u \in Threads :
        /\ pc[t] = "notfound" /\ tries[t] = max_retries
        /\ pc[u] = "load" /\ tries[u] > 1 /\ tries[u] < max_retries

\* C31: a get_instance call that starts after the build of an earlier call
\* failed does not find an instance to return, unless that instance is a
\* completely built one
C31_FailedBuildNotRetained ==
    [][\A u \in Threads :
          (/\ pc[u] = "idle" /\ pc'[u] # "idle"
           /\ \E t \in Threads : returned[t] = "RuntimeError")
              => (pc'[u] = "return" => BuildCompleted)]_vars

\* C32: an existence check of the wait step of get_instance finds the file
\* exactly when the configured products_file, the file that
\* load_processed_products reads, exists
C32_WaitChecksLoadedFile ==
    [][\A t \in Threads :
          (pc[t] = "wait" /\ tries'[t] = tries[t] + 1)
              => (pc'[t] = "load" <=> file.exists)]_vars

\* C33: on a built index whose cache holds vectors only,
\* search_and_generate_response with a query that is not blank and k > 0
\* returns normally, whatever removals and updates came before it
C33_ResponseNeverRaises ==
    (/\ result.op = "respond" /\ ~AllSpaces(result.q) /\ result.k > 0
     /\ IndexBuilt /\ ~products_df.isNone
     /\ \A x \in DOMAIN embeddings_dict : embeddings_dict[x].isvec)
        => result.err = "none"

\* C34: is_preprocessing_complete() is true only when preprocess_data saved
\* all three output files and no exception was raised
C34_CompleteOnlyIfAllWritten ==
    is_preprocessing_complete
        => /\ preprocessor.written = {Outputs[j] : j \in 1..Len(Outputs)}
           /\ preprocessor.err = "none"

=============================================================================
